---- MODULE Spec2Model ----
(***************************************************************************)
(* nekro_view_image: describe_image (src/__init__.py).                     *)
(*                                                                         *)
(* One plugin method: validate a data-URL string, build one request from   *)
(* the shared configuration object, POST it, parse the response (buffered  *)
(* JSON or a line stream) and map every failure to a text.                 *)
(*                                                                         *)
(* Strings are sequences of symbols.  A symbol is a character ("a", " ",   *)
(* "\n") or a literal of the protocol taken whole ("data:", "[DONE]",      *)
(* "data:image/", ";base64,", a MIME subtype).  The serialised text of a   *)
(* JSON document is one symbol, its name in the table Doc; json.loads is   *)
(* modelled on that table.  The Chinese message literals of the source     *)
(* are written in ASCII (the module's strings are ASCII); each definition  *)
(* names the literal it stands for.                                        *)
(***************************************************************************)
EXTENDS Integers, Sequences, FiniteSets, TLC

\* ------------------------------------------------------------------ bounds
\* Longest line sequence of a streamed response body.
MaxLines == 3

\* ----------------------------------------------------------------- strings
Whitespace == {" ", "\n"}

RECURSIVE lstrip(_)
lstrip(s) == IF s # <<>> /\ Head(s) \in Whitespace THEN lstrip(Tail(s)) ELSE s

RECURSIVE rstrip(_)
rstrip(s) ==
    IF s # <<>> /\ s[Len(s)] \in Whitespace THEN rstrip(SubSeq(s, 1, Len(s) - 1)) ELSE s

\* str.strip()
strip(s) == rstrip(lstrip(s))

\* str.startswith(prefix) for a one-symbol prefix
startswith(s, prefix) == s # <<>> /\ Head(s) = prefix

\* s[:n]
Slice(s, n) == SubSeq(s, 1, IF Len(s) < n THEN Len(s) ELSE n)

\* str(n) for n >= 0: the decimal digits
Digit(d) == <<"0", "1", "2", "3", "4", "5", "6", "7", "8", "9">>[d + 1]

RECURSIVE str(_)
str(n) == IF n < 10 THEN <<Digit(n)>> ELSE str(n \div 10) \o <<Digit(n % 10)>>

\* ------------------------------------------------------------ JSON values
JNull == [t |-> "null", v |-> <<>>]
JNum(digits) == [t |-> "num", v |-> digits]
JStr(s) == [t |-> "str", v |-> s]
JList(items) == [t |-> "list", v |-> items]
JObj(fields) == [t |-> "obj", v |-> fields]
EmptyObj == JObj(<<>>)

\* Python truth value of a parsed JSON value (the `if x` / `if not x` tests).
truthy(x) ==
    CASE x.t = "null" -> FALSE
      [] x.t = "num" -> x.v # <<"0">>
      [] x.t = "str" -> x.v # <<>>
      [] x.t = "list" -> x.v # <<>>
      [] x.t = "obj" -> DOMAIN x.v # {}

\* The outcome of an expression: a value, or the exception it raises.
Ok(x) == [ok |-> TRUE, value |-> x, exc |-> "none"]
Err(e) == [ok |-> FALSE, value |-> JNull, exc |-> e]

\* d.get(key, default): only a dict has .get
get(d, key, default) ==
    IF d.t = "obj"
    THEN Ok(IF key \in DOMAIN d.v THEN d.v[key] ELSE default)
    ELSE Err("AttributeError")

\* x[0] of a non-empty value
index0(x) ==
    CASE x.t = "list" -> Ok(x.v[1])
      [] x.t = "str" -> Ok(JStr(<<x.v[1]>>))
      [] x.t = "obj" -> Err("KeyError")
      [] OTHER -> Err("TypeError")

\* The documents a response can carry, by the symbol that stands for their text.
Delta(content) == JObj([choices |-> JList(<<JObj([delta |-> JObj([content |-> content])])>>)])
Message(content) ==
    JObj([choices |-> JList(<<JObj([message |-> JObj([content |-> content])])>>)])

Doc(name) ==
    CASE name = "Da" -> Delta(JStr(<<"a">>))
      [] name = "D_b" -> Delta(JStr(<<" ", "b">>))
      [] name = "Dsp" -> Delta(JStr(<<" ">>))
      [] name = "Dempty" -> Delta(JStr(<<>>))
      [] name = "Dnum" -> Delta(JNum(<<"5">>))
      [] name = "Dnocontent" -> JObj([choices |-> JList(<<JObj([delta |-> EmptyObj])>>)])
      [] name = "Dnodelta" -> JObj([choices |-> JList(<<EmptyObj>>)])
      [] name = "Dnochoices" -> EmptyObj
      [] name = "Demptychoices" -> JObj([choices |-> JList(<<>>)])
      [] name = "Dnullchoices" -> JObj([choices |-> JNull])
      [] name = "Dlist" -> JList(<<>>)
      [] name = "Dint" -> JNum(<<"7">>)
      [] name = "Dchoice0num" -> JObj([choices |-> JList(<<JNum(<<"5">>)>>)])
      [] name = "Dchoicesobj" -> JObj([choices |-> JObj([k |-> JNull])])
      [] name = "Ddeltanull" -> JObj([choices |-> JList(<<JObj([delta |-> JNull])>>)])
      [] name = "Ddeltastr" -> JObj([choices |-> JList(<<JObj([delta |-> JStr(<<"a">>)])>>)])
      [] name = "M_a_" -> Message(JStr(<<" ", "a", " ">>))
      [] name = "Mab" -> Message(JStr(<<"a", "b">>))
      [] name = "Msp" -> Message(JStr(<<" ">>))
      [] name = "Mempty" -> Message(JStr(<<>>))
      [] name = "Mnullcontent" -> Message(JNull)
      [] name = "Mnum" -> Message(JNum(<<"5">>))
      [] name = "Mnocontent" ->
            JObj([choices |-> JList(<<JObj([message |-> JObj([role |-> JStr(<<"a">>)])])>>)])
      [] name = "Memptymsg" -> JObj([choices |-> JList(<<JObj([message |-> EmptyObj])>>)])
      [] name = "Mnullmsg" -> JObj([choices |-> JList(<<JObj([message |-> JNull])>>)])
      [] name = "Mmsgstr" -> JObj([choices |-> JList(<<JObj([message |-> JStr(<<"a">>)])>>)])

DocNames ==
    {"Da", "D_b", "Dsp", "Dempty", "Dnum", "Dnocontent", "Dnodelta", "Dnochoices",
     "Demptychoices", "Dnullchoices", "Dlist", "Dint", "Dchoice0num", "Dchoicesobj",
     "Ddeltanull", "Ddeltastr", "M_a_", "Mab", "Msp", "Mempty", "Mnullcontent", "Mnum",
     "Mnocontent", "Memptymsg", "Mnullmsg", "Mmsgstr"}

Digits == {"0", "1", "2", "3", "4", "5", "6", "7", "8", "9"}

\* The text of a JSON integer: digits, with no leading zero before another digit.
is_json_int(s) ==
    /\ s # <<>>
    /\ \A i \in 1..Len(s) : s[i] \in Digits
    /\ Len(s) = 1 \/ s[1] # "0"

\* json.loads(s): whitespace around the document is ignored; the text is one
\* of the documents of Doc or an integer written in digits; anything else
\* raises JSONDecodeError.
json_loads(s) ==
    LET body == strip(s)
    IN IF Len(body) = 1 /\ body[1] \in DocNames THEN Ok(Doc(body[1]))
       ELSE IF is_json_int(body) THEN Ok(JNum(body))
       ELSE Err("JSONDecodeError")

\* -------------------------------------------------------- message literals
\* "图片必须是 data:image/jpeg/png;base64 格式，且仅支持 jpeg、jpg、png。" (line 119)
ValidationMessage == "image must be data:image/jpeg/png;base64, only jpeg, jpg, png"
\* "图片格式错误: " (line 217)
FormatErrorPrefix == "image format error: "
\* "网络错误: " (line 253)
NetworkErrorPrefix == "network error: "
\* "HTTP 错误 " (line 259)
HttpErrorPrefix == "HTTP error "
\* "未知错误: " (line 264)
UnknownErrorPrefix == "unknown error: "
\* "未能从流式响应中获取图片描述。" (line 155)
NoStreamDescription == <<"no image description obtained from the streamed response.">>
\* "响应中未包含描述信息 (choices)。" (line 162)
NoChoices == <<"response holds no description (choices).">>
\* "响应中未包含描述信息 (message)。" (line 166)
NoMessage == <<"response holds no description (message).">>
\* "响应中未包含描述信息 (content)。" (line 170)
NoContent == <<"response holds no description (content).">>

\* -------------------------------------------------------------- validator
\* The argument of describe_image: a str, or a value that is not a str (None,
\* the validator's own default).
None == [isStr |-> FALSE, s |-> <<>>]
Str(s) == [isStr |-> TRUE, s |-> s]

ImageFormats == {"jpeg", "jpg", "png"}
\* Representatives of [A-Za-z0-9+/=]
Base64Chars == {"A", "z", "9", "+", "/", "="}

\* re.fullmatch(r"^data:image/(jpeg|jpg|png);base64,([A-Za-z0-9+/=]+)$", s)
fullmatch(s) ==
    /\ Len(s) >= 4
    /\ s[1] = "data:image/"
    /\ s[2] \in ImageFormats
    /\ s[3] = ";base64,"
    /\ \A i \in 4..Len(s) : s[i] \in Base64Chars

\* A validator that also lets gif through.
validate_accepting_gif(image_data) ==
    IF ~image_data.isStr THEN "TypeError"
    ELSE IF fullmatch(image_data.s)
            \/ (Len(image_data.s) >= 4 /\ fullmatch([image_data.s EXCEPT ![2] = "png"])
                /\ image_data.s[2] = "gif")
         THEN "ok"
         ELSE "ValueError"

\* _validate_image_data_url: "ok", or the exception raised.  re.fullmatch on a
\* value that is not a str raises TypeError.
_validate_image_data_url(image_data) ==
    IF ~image_data.isStr THEN "TypeError"
    ELSE IF fullmatch(image_data.s) THEN "ok" ELSE "ValueError"

\* ----------------------------------------------------------------- parser
DataPrefix == "data:"
DoneMark == "[DONE]"

\* One pass of the loop body: what the loop does next, and the accumulator.
Continue(parts) == [ctl |-> "continue", parts |-> parts, exc |-> "none"]
Break(parts) == [ctl |-> "break", parts |-> parts, exc |-> "none"]
Raise(parts, e) == [ctl |-> "raise", parts |-> parts, exc |-> e]

\* A loop that does not stop at the terminator.
on_done_line_continue(parts) == Continue(parts)

\* if line == "[DONE]": break
on_done_line(parts) == Break(parts)

\* A loop in which a line that is not JSON is fatal.
on_json_decode_error_raise(parts) == Raise(parts, "JSONDecodeError")

\* except json.JSONDecodeError: logger.warning(...); continue
on_json_decode_error(parts) == Continue(parts)

\* The try body of the loop, on the parsed document.
extract_delta(parts, data) ==
    LET choices == get(data, "choices", JList(<<>>))
    IN IF ~choices.ok THEN Raise(parts, choices.exc)
       ELSE IF ~truthy(choices.value) THEN Continue(parts)
       ELSE LET first == index0(choices.value)
            IN IF ~first.ok THEN Raise(parts, first.exc)
               ELSE LET delta == get(first.value, "delta", EmptyObj)
                    IN IF ~delta.ok THEN Raise(parts, delta.exc)
                       ELSE LET content == get(delta.value, "content", JNull)
                            IN IF ~content.ok THEN Raise(parts, content.exc)
                               ELSE IF truthy(content.value)
                                    THEN Continue(Append(parts, content.value))
                                    ELSE Continue(parts)

\* The line as the loop compares and parses it: a leading "data:" removed and
\* the rest stripped; a line without the prefix is taken as it is.
sse_payload(line) == IF startswith(line, DataPrefix) THEN strip(Tail(line)) ELSE line

\* The body of `async for line in response.aiter_lines()`.
process_line(parts, line) ==
    IF line = <<>> THEN Continue(parts)
    ELSE LET payload == sse_payload(line)
         IN IF payload = <<DoneMark>> THEN on_done_line(parts)
            ELSE LET parsed == json_loads(payload)
                 IN IF ~parsed.ok THEN on_json_decode_error(parts)
                    ELSE extract_delta(parts, parsed.value)

\* "".join(description_parts): TypeError on an item that is not a str.
RECURSIVE concat(_)
concat(parts) == IF parts = <<>> THEN <<>> ELSE Head(parts).v \o concat(Tail(parts))

join(parts) ==
    IF \A i \in 1..Len(parts) : parts[i].t = "str" THEN Ok(JStr(concat(parts)))
    ELSE Err("TypeError")

\* The text a return statement gives, or the exception that leaves the parser.
Returns(text) == [ok |-> TRUE, text |-> text, exc |-> "none"]
Raises(e) == [ok |-> FALSE, text |-> <<>>, exc |-> e]

\* After the loop, with the joined text kept as it is.
stream_description_untrimmed(parts) ==
    LET joined == join(parts)
    IN IF ~joined.ok THEN Raises(joined.exc)
       ELSE IF joined.value.v = <<>> THEN Returns(NoStreamDescription)
       ELSE Returns(joined.value.v)

\* After the loop: join, strip, the placeholder when nothing is left.
stream_description(parts) ==
    LET joined == join(parts)
    IN IF ~joined.ok THEN Raises(joined.exc)
       ELSE LET description == strip(joined.value.v)
            IN IF description = <<>> THEN Returns(NoStreamDescription)
               ELSE Returns(description)

\* The non-streamed branch of _extract_description_from_response.
extract_json(text) ==
    LET resp_json == json_loads(text)
    IN IF ~resp_json.ok THEN Raises(resp_json.exc)
       ELSE LET choices == get(resp_json.value, "choices", JList(<<>>))
            IN IF ~choices.ok THEN Raises(choices.exc)
               ELSE IF ~truthy(choices.value) THEN Returns(NoChoices)
               ELSE LET first == index0(choices.value)
                    IN IF ~first.ok THEN Raises(first.exc)
                       ELSE LET message == get(first.value, "message", EmptyObj)
                            IN IF ~message.ok THEN Raises(message.exc)
                               ELSE IF ~truthy(message.value) THEN Returns(NoMessage)
                               ELSE LET description == get(message.value, "content", JStr(<<>>))
                                    IN IF ~description.ok THEN Raises(description.exc)
                                       ELSE IF ~truthy(description.value)
                                            THEN Returns(NoContent)
                                       ELSE IF description.value.t # "str"
                                            THEN Raises("AttributeError")
                                       ELSE Returns(strip(description.value.v))

\* response.aiter_lines(): the body cut at the line ends; a last line that is
\* empty is not yielded.
RECURSIVE pieces(_)
pieces(text) ==
    IF \A i \in 1..Len(text) : text[i] # "\n" THEN <<text>>
    ELSE LET i == CHOOSE k \in 1..Len(text) :
                      text[k] = "\n" /\ \A j \in 1..(k - 1) : text[j] # "\n"
         IN <<SubSeq(text, 1, i - 1)>> \o pieces(SubSeq(text, i + 1, Len(text)))

aiter_lines(text) ==
    LET p == pieces(text)
    IN IF p[Len(p)] = <<>> THEN SubSeq(p, 1, Len(p) - 1) ELSE p

\* The streamed branch of _extract_description_from_response as a function of
\* the lines: the loop from the accumulator `parts` on, then the return.
RECURSIVE extract_stream(_, _)
extract_stream(parts, lines) ==
    IF lines = <<>> THEN stream_description(parts)
    ELSE LET r == process_line(parts, Head(lines))
         IN IF r.ctl = "raise" THEN Raises(r.exc)
            ELSE IF r.ctl = "break" THEN stream_description(r.parts)
            ELSE extract_stream(r.parts, Tail(lines))

\* ---------------------------------------------------------- describe_image
\* The configuration fields of NekroViewImageConfig that are fixed here at
\* their defaults.
invoke_url == <<"https://ai.api.nvidia.com/v1/vlm">>
model == <<"nvidia/neva-22b">>
content == "Describe the image. "

RECURSIVE rstrip_slash(_)
rstrip_slash(s) ==
    IF s # <<>> /\ s[Len(s)] = "/" THEN rstrip_slash(SubSeq(s, 1, Len(s) - 1)) ELSE s

RECURSIVE lstrip_slash(_)
lstrip_slash(s) == IF s # <<>> /\ Head(s) = "/" THEN lstrip_slash(Tail(s)) ELSE s

NoRequest == [request_url |-> <<>>, prompt |-> <<>>, stream |-> FALSE, Accept |-> "none"]

\* Steps 2 to 5 of describe_image: URL, prompt, payload and headers, from the
\* configuration as it is when the call runs them.
build_request(cfg, image_data) ==
    [request_url |-> rstrip_slash(invoke_url) \o <<"/">> \o lstrip_slash(model),
     prompt |-> <<content, "<img src=\"">> \o image_data.s \o <<"\" />">>,
     stream |-> cfg.stream,
     Accept |-> IF cfg.stream THEN "text/event-stream" ELSE "application/json"]

NoResponse == [status_code |-> 0, text |-> <<>>]

\* httpx.Response.is_success, the test of raise_for_status()
is_success(status_code) == 200 <= status_code /\ status_code <= 299

\* Length of the body excerpt of the status-error text
ExcerptLen == 200

\* A status-error text that carries the whole body.
http_error_text_whole_body(resp) ==
    <<HttpErrorPrefix>> \o str(resp.status_code) \o <<": ">> \o resp.text

\* f"HTTP 错误 {exc.response.status_code}: {exc.response.text[:200]}"
http_error_text(resp) ==
    <<HttpErrorPrefix>> \o str(resp.status_code) \o <<": ">> \o Slice(resp.text, ExcerptLen)

\* f"图片格式错误: {exc}"
format_error_text == <<FormatErrorPrefix, ValidationMessage>>
\* f"网络错误: {exc}"
network_error_text(exc) == <<NetworkErrorPrefix, exc>>
\* f"未知错误: {exc}"
unknown_error_text(exc) == <<UnknownErrorPrefix, exc>>

\* What client.post can raise instead of giving a response.
RequestErrors == {"ConnectTimeout", "ConnectError", "ReadTimeout"}
OtherPostErrors == {"InvalidURL"}

\* A client that is closed only when its block ends without an exception.
aexit_on_success_only(cl, raising) == IF raising THEN cl ELSE "closed"

\* AsyncClient.__aexit__: the end of the `async with` block, however it ends.
aexit(cl, raising) == "closed"

Pending == [kind |-> "pending", exit |-> "none", text |-> <<>>]
Returned(exit, text) == [kind |-> "returned", exit |-> exit, text |-> text]
Propagated(exc) == [kind |-> "raised", exit |-> exc, text |-> <<>>]

\* ------------------------------------------------------------------ state
Calls == {"call1", "call2"}

VARIABLES
    config,             \* the module-level configuration object, shared
    pc,                 \* where each call is: idle, posting, stream, joining, done
    image_data,         \* the argument of each call
    request,            \* what the call sent
    client,             \* the call's AsyncClient: none, open, closed
    posts,              \* POST requests the call has issued
    response,           \* the response the call received
    parse_mode,         \* the `stream` argument the parser was called with
    stream,             \* lines of the response not yet consumed
    read,               \* lines consumed, in the order they were consumed
    description_parts,  \* the parser's accumulator
    outcome             \* how the call ended

vars ==
    <<config, pc, image_data, request, client, posts, response, parse_mode, stream, read,
      description_parts, outcome>>

Set(f, c, x) == [f EXCEPT ![c] = x]

\* ----------------------------------------------------------------- inputs
RECURSIVE Join(_)
Join(ls) ==
    IF ls = <<>> THEN <<>>
    ELSE IF Len(ls) = 1 THEN ls[1]
    ELSE ls[1] \o <<"\n">> \o Join(Tail(ls))

SeqsUpTo(S, n) == UNION {[1..k -> S] : k \in 0..n}

\* Strings around the pattern: each accepted format, and what the pattern
\* refuses (another format, no payload, a character outside the class, text
\* before or after the match).
ValidImageStrings ==
    {<<"data:image/", "png", ";base64,", "A">>,
     <<"data:image/", "jpeg", ";base64,", "A", "=">>,
     <<"data:image/", "jpg", ";base64,", "/", "9">>}

ImageStrings ==
    ValidImageStrings
    \cup {<<>>, <<"data:image/">>, <<"data:image/", "png", "A">>}
    \cup {pre \o <<"data:image/", fmt, ";base64,">> \o p \o suf :
            pre \in {<<>>, <<"x">>}, fmt \in {"png", "gif"},
            p \in {<<>>, <<"A">>, <<"!">>, <<"A", "!">>, <<"A", " ", "A">>},
            suf \in {<<>>, <<"\n">>}}

Images == {None} \cup {Str(s) : s \in ImageStrings}

FragmentLine == <<DataPrefix, " ", "Da">>
DoneLine == <<DataPrefix, " ", DoneMark>>

\* The lines the streamed bodies are built of.
CoreLines ==
    {FragmentLine, <<DataPrefix, "D_b">>, <<"Dsp">>, DoneLine, <<"x">>,
     <<DataPrefix, " ", "Dnochoices">>, <<DataPrefix, " ", "Dlist">>}

\* Every other shape of line, met before and after a fragment.
OtherLines ==
    {<<d>> : d \in DocNames} \cup {<<DataPrefix, " ", d>> : d \in DocNames}
    \cup {<<DoneMark>>, <<" ", DoneMark>>, <<DoneMark, " ">>, <<DataPrefix>>,
          <<DataPrefix, DoneMark, " ">>, <<DataPrefix, " ", "x">>, <<"Da", "Da">>, <<>>,
          <<"7">>, <<DataPrefix, " ", "4", "2">>, <<"0">>, <<"0", "1">>, <<"1", "x">>}

\* Longer bodies: lines after the terminator, a second terminator.
LongBodies ==
    {Join(<<FragmentLine, <<DataPrefix, "D_b">>, DoneLine, FragmentLine>>),
     Join(<<FragmentLine, <<"x">>, <<DataPrefix, "D_b">>, DoneLine, <<"x">>, DoneLine>>),
     Join(<<FragmentLine, <<>>, DoneLine, <<DataPrefix, " ", "Dlist">>, <<"Dnum">>>>)}

StreamBodies ==
    {Join(ls) : ls \in SeqsUpTo(CoreLines, MaxLines)}
    \cup LongBodies
    \cup OtherLines
    \cup {Join(<<l, FragmentLine>>) : l \in OtherLines}
    \cup {Join(<<FragmentLine, l>>) : l \in OtherLines}

JsonBodies ==
    {<<d>> : d \in DocNames}
    \cup {<<"\n", "M_a_", "\n">>, <<"x">>, <<"7">>, <<" ", "4", "2", "\n">>, <<"0", "1">>}

LongText(n) == [i \in 1..n |-> Digit(i % 10)]
ServerError == <<"s", "e", "r", "v", "e", "r", " ", "e", "r", "r", "o", "r">>
ErrorBodies ==
    {<<>>, ServerError, LongText(ExcerptLen - 1), LongText(ExcerptLen),
     LongText(ExcerptLen + 1)}

StatusCodes == {199, 200, 299, 300, 404, 500}

Responses ==
    [status_code : {200}, text : StreamBodies \cup JsonBodies]
    \cup [status_code : StatusCodes,
          text : ErrorBodies \cup {<<"M_a_">>, Join(<<FragmentLine, DoneLine>>)}]

\* ---------------------------------------------------------------- actions
Init ==
    /\ config = [stream |-> FALSE]
    /\ pc = [c \in Calls |-> "idle"]
    /\ image_data = [c \in Calls |-> None]
    /\ request = [c \in Calls |-> NoRequest]
    /\ client = [c \in Calls |-> "none"]
    /\ posts = [c \in Calls |-> 0]
    /\ response = [c \in Calls |-> NoResponse]
    /\ parse_mode = [c \in Calls |-> "none"]
    /\ stream = [c \in Calls |-> <<>>]
    /\ read = [c \in Calls |-> <<>>]
    /\ description_parts = [c \in Calls |-> <<>>]
    /\ outcome = [c \in Calls |-> Pending]

\* The host changes the streaming flag of the shared configuration object.
HostSetsConfig ==
    /\ config' = [config EXCEPT !.stream = ~config.stream]
    /\ UNCHANGED <<pc, image_data, request, client, posts, response, parse_mode, stream,
                   read, description_parts, outcome>>

\* The call ends: its text (or its exception) is with the caller.
End(c, result) ==
    /\ pc' = Set(pc, c, "done")
    /\ outcome' = Set(outcome, c, result)

\* describe_image up to its first suspension: validation, the request, the
\* client, the POST.
Invoke(c, img) ==
    /\ pc[c] = "idle"
    /\ image_data' = Set(image_data, c, img)
    /\ LET v == _validate_image_data_url(img)
       IN IF v = "ValueError"
          THEN /\ End(c, Returned("format_error", format_error_text))
               /\ UNCHANGED <<request, client, posts>>
          ELSE IF v # "ok"
          THEN /\ End(c, Propagated(v))
               /\ UNCHANGED <<request, client, posts>>
          ELSE /\ request' = Set(request, c, build_request(config, img))
               /\ client' = Set(client, c, "open")
               /\ posts' = Set(posts, c, posts[c] + 1)
               /\ pc' = Set(pc, c, "posting")
               /\ UNCHANGED outcome
    /\ UNCHANGED <<config, response, parse_mode, stream, read, description_parts>>

\* client.post raises: a transport failure, or an exception of another class.
PostFails(c, exc) ==
    /\ pc[c] = "posting"
    /\ client' = Set(client, c, aexit(client[c], TRUE))
    /\ End(c, IF exc \in RequestErrors
              THEN Returned("network_error", network_error_text(exc))
              ELSE Returned("unknown_error", unknown_error_text(exc)))
    /\ UNCHANGED <<config, image_data, request, posts, response, parse_mode, stream, read,
                   description_parts>>

\* client.post returns: raise_for_status, then the parser in the mode the
\* configuration names now.
ResponseArrives(c, resp) ==
    /\ pc[c] = "posting"
    /\ response' = Set(response, c, resp)
    /\ IF ~is_success(resp.status_code)
       THEN /\ client' = Set(client, c, aexit(client[c], TRUE))
            /\ End(c, Returned("status_error", http_error_text(resp)))
            /\ UNCHANGED <<parse_mode, stream>>
       ELSE IF config.stream
       THEN /\ parse_mode' = Set(parse_mode, c, "stream")
            /\ stream' = Set(stream, c, aiter_lines(resp.text))
            /\ pc' = Set(pc, c, "stream")
            /\ UNCHANGED <<client, outcome>>
       ELSE LET r == extract_json(resp.text)
            IN /\ parse_mode' = Set(parse_mode, c, "json")
               /\ client' = Set(client, c, aexit(client[c], ~r.ok))
               /\ End(c, IF r.ok THEN Returned("parsed", r.text)
                         ELSE Returned("unknown_error", unknown_error_text(r.exc)))
               /\ UNCHANGED stream
    /\ UNCHANGED <<config, image_data, request, posts, read, description_parts>>

\* One pass of the streamed parser's loop.
ReadLine(c) ==
    /\ pc[c] = "stream"
    /\ stream[c] # <<>>
    /\ stream' = Set(stream, c, Tail(stream[c]))
    /\ read' = Set(read, c, Append(read[c], Head(stream[c])))
    /\ LET r == process_line(description_parts[c], Head(stream[c]))
       IN /\ description_parts' = Set(description_parts, c, r.parts)
          /\ IF r.ctl = "raise"
             THEN /\ client' = Set(client, c, aexit(client[c], TRUE))
                  /\ End(c, Returned("unknown_error", unknown_error_text(r.exc)))
             ELSE /\ pc' = Set(pc, c, IF r.ctl = "break" THEN "joining" ELSE "stream")
                  /\ UNCHANGED <<client, outcome>>
    /\ UNCHANGED <<config, image_data, request, posts, response, parse_mode>>

\* The loop is over (the terminator, or no line left): the parser returns.
FinishStream(c) ==
    /\ pc[c] = "joining" \/ (pc[c] = "stream" /\ stream[c] = <<>>)
    /\ LET r == stream_description(description_parts[c])
       IN /\ client' = Set(client, c, aexit(client[c], ~r.ok))
          /\ End(c, IF r.ok THEN Returned("parsed", r.text)
                    ELSE Returned("unknown_error", unknown_error_text(r.exc)))
    /\ UNCHANGED <<config, image_data, request, posts, response, parse_mode, stream, read,
                   description_parts>>

\* One call, every input.
Next ==
    \/ HostSetsConfig
    \/ \E img \in Images : Invoke("call1", img)
    \/ \E exc \in RequestErrors \cup OtherPostErrors : PostFails("call1", exc)
    \/ \E resp \in Responses : ResponseArrives("call1", resp)
    \/ ReadLine("call1")
    \/ FinishStream("call1")

Spec == Init /\ [][Next]_vars

\* Two calls in flight together, on the inputs that tell the paths apart.
ConcImages == {None, Str(<<"data:image/", "png", ";base64,", "A">>),
               Str(<<"data:image/", "gif", ";base64,", "A">>)}
ConcResponses ==
    {[status_code |-> 200, text |-> <<"Mab">>],
     [status_code |-> 200, text |-> Join(<<FragmentLine, DoneLine>>)],
     [status_code |-> 500, text |-> ServerError]}

NextConc ==
    \/ HostSetsConfig
    \/ \E c \in Calls :
          \/ \E img \in ConcImages : Invoke(c, img)
          \/ PostFails(c, "ConnectTimeout")
          \/ \E resp \in ConcResponses : ResponseArrives(c, resp)
          \/ ReadLine(c)
          \/ FinishStream(c)

SpecConc == Init /\ [][NextConc]_vars

\* ------------------------------------------------------------- properties
\* What the claims say of a parsed document: a field that is not there is
\* absent; absent or empty is what the placeholders are for.
Absent == [t |-> "absent", v |-> <<>>]
Field(d, key) == IF d.t = "obj" /\ key \in DOMAIN d.v THEN d.v[key] ELSE Absent
First(x) == IF x.t = "list" /\ x.v # <<>> THEN x.v[1] ELSE Absent
AbsentOrEmpty(x) == x.t = "absent" \/ ~truthy(x)

\* The pattern the claims name, on a call's argument.
MatchesPattern(image) ==
    /\ image.isStr
    /\ Len(image.s) >= 4
    /\ SubSeq(image.s, 1, 3) \in {<<"data:image/", fmt, ";base64,">> : fmt \in {"jpeg", "jpg", "png"}}
    /\ \A i \in 4..Len(image.s) : image.s[i] \in {"A", "z", "9", "+", "/", "="}

IsTerminator(line) == line # <<>> /\ sse_payload(line) = <<DoneMark>>
ParsesAsJson(line) == line # <<>> /\ ~IsTerminator(line) /\ json_loads(sse_payload(line)).ok
IsMalformed(line) == line # <<>> /\ ~IsTerminator(line) /\ ~json_loads(sse_payload(line)).ok
DeltaContent(line) ==
    Field(Field(First(Field(json_loads(sse_payload(line)).value, "choices")), "delta"), "content")

\* The fragment a line carries, if it carries one.
HasFragment(line) == ParsesAsJson(line) /\ ~AbsentOrEmpty(DeltaContent(line))

RECURSIVE Fragments(_)
Fragments(lines) ==
    IF lines = <<>> THEN <<>>
    ELSE (IF HasFragment(Head(lines)) THEN <<DeltaContent(Head(lines))>> ELSE <<>>)
         \o Fragments(Tail(lines))

RECURSIVE BeforeTerminator(_)
BeforeTerminator(lines) ==
    IF lines = <<>> \/ IsTerminator(Head(lines)) THEN <<>>
    ELSE <<Head(lines)>> \o BeforeTerminator(Tail(lines))

\* The lines with the malformed ones before the terminator taken out.
RECURSIVE WithoutMalformed(_)
WithoutMalformed(lines) ==
    IF lines = <<>> THEN <<>>
    ELSE IF IsTerminator(Head(lines)) THEN lines
    ELSE IF IsMalformed(Head(lines)) THEN WithoutMalformed(Tail(lines))
    ELSE <<Head(lines)>> \o WithoutMalformed(Tail(lines))

AllStrings(parts) == \A i \in 1..Len(parts) : parts[i].t = "str"
Last(s) == s[Len(s)]

\* The streamed parser left its loop by the terminator or by the end of the
\* lines, and returned.
LoopCompleted(c) ==
    /\ pc[c] = "done"
    /\ parse_mode[c] = "stream"
    /\ read[c] = <<>> \/ process_line(<<>>, Last(read[c])).ctl # "raise"

\* C1: describe_image never lets an exception reach its caller: whatever the
\* argument and whatever the remote call does, the call ends by returning a
\* text.
C1_NeverPropagates ==
    \A c \in Calls : outcome[c].kind # "raised" /\ (pc[c] = "done" => outcome[c].kind = "returned")

\* C2: a call whose argument does not match the pattern issues no POST (and
\* a string that does not match gets the format-error text); every call
\* issues at most one POST, and a call that returned a network or status
\* error has issued exactly the one that failed.
C2_AtMostOnePost ==
    \A c \in Calls :
        /\ posts[c] <= 1
        /\ (pc[c] # "idle" /\ ~MatchesPattern(image_data[c])) =>
              /\ posts[c] = 0
              /\ pc[c] = "done"
              /\ image_data[c].isStr =>
                    outcome[c] = Returned("format_error", <<FormatErrorPrefix, ValidationMessage>>)
        /\ outcome[c].exit \in {"network_error", "status_error"} =>
              pc[c] = "done" /\ posts[c] = 1

C2_Witness ==
    \E c \in Calls :
        /\ pc[c] = "done"
        /\ outcome[c].exit = "status_error"
        /\ posts[c] = 1
        /\ MatchesPattern(image_data[c])

\* C3: after a response whose status is not 2xx the call has returned the
\* status code followed by the first 200 characters of the body (all of it
\* when it is shorter), and the response parser has not run.
C3_StatusErrorText ==
    \A c \in Calls :
        (response[c] # NoResponse
         /\ ~(response[c].status_code \in 200..299)) =>
            /\ pc[c] = "done"
            /\ outcome[c].kind = "returned"
            /\ parse_mode[c] = "none"
            /\ read[c] = <<>>
            /\ \E k \in 0..200 :
                  /\ k <= Len(response[c].text)
                  /\ k = 200 \/ k = Len(response[c].text)
                  /\ outcome[c].text =
                        <<HttpErrorPrefix>> \o str(response[c].status_code) \o <<": ">>
                        \o SubSeq(response[c].text, 1, k)

C3_Witness ==
    \E c \in Calls :
        /\ pc[c] = "done"
        /\ response[c].status_code = 500
        /\ Len(response[c].text) = 201
        /\ Len(outcome[c].text) = 205
        /\ SubSeq(outcome[c].text, 2, 4) = <<"5", "0", "0">>

\* C4: in non-streamed mode, for every JSON response body, the result is the
\* 'choices' placeholder when choices is absent or empty, else the 'message'
\* placeholder when choices[0].message is absent or empty, else the 'content'
\* placeholder when message.content is absent or empty, else message.content
\* trimmed; the placeholders differ and none of the cases fails the call.
C4_Expected(d) ==
    LET choices == Field(d, "choices")
        message == Field(First(choices), "message")
        description == Field(message, "content")
    IN IF AbsentOrEmpty(choices) THEN NoChoices
       ELSE IF AbsentOrEmpty(message) THEN NoMessage
       ELSE IF AbsentOrEmpty(description) THEN NoContent
       ELSE strip(description.v)

C4_PlaceholderPerField ==
    /\ NoChoices # NoMessage /\ NoChoices # NoContent /\ NoMessage # NoContent
    /\ \A c \in Calls :
          (pc[c] = "done" /\ parse_mode[c] = "json" /\ json_loads(response[c].text).ok) =>
              outcome[c] = Returned("parsed", C4_Expected(json_loads(response[c].text).value))

\* C5: the streamed parser consumes the lines once, front to back, and stops
\* at the first terminator: the lines read and the lines left are the
\* response's lines in order, no line is read after a terminator, the
\* accumulator holds the fragments of the lines read in arrival order, and a
\* returned description is made of the fragments before the terminator.
C5_StopsAtTerminator ==
    \A c \in Calls :
        parse_mode[c] = "stream" =>
            /\ read[c] \o stream[c] = aiter_lines(response[c].text)
            /\ \A i \in 1..(Len(read[c]) - 1) : ~IsTerminator(read[c][i])
            /\ (read[c] # <<>> /\ IsTerminator(Last(read[c]))) => pc[c] \in {"joining", "done"}
            /\ description_parts[c] = Fragments(read[c])
            /\ description_parts[c] = Fragments(BeforeTerminator(read[c]))
            /\ (pc[c] = "done" /\ outcome[c].exit = "parsed" /\ outcome[c].text # NoStreamDescription) =>
                  outcome[c].text
                      = strip(concat(Fragments(BeforeTerminator(aiter_lines(response[c].text)))))

C5_Witness ==
    \E c \in Calls :
        /\ pc[c] = "done"
        /\ outcome[c].exit = "parsed"
        /\ Len(description_parts[c]) = 2
        /\ IsTerminator(Last(read[c]))
        /\ stream[c] # <<>>
        /\ HasFragment(Head(stream[c]))

\* C6: a line that is not JSON is skipped and is not fatal: the call ends as
\* it ends on the same lines with the malformed lines before the terminator
\* taken out, so the fragments of the valid lines are still joined in order.
C6_Outcome(lines) ==
    LET r == extract_stream(<<>>, lines)
    IN IF r.ok THEN Returned("parsed", r.text)
       ELSE Returned("unknown_error", <<UnknownErrorPrefix, r.exc>>)

C6_MalformedSkipped ==
    \A c \in Calls :
        /\ (pc[c] = "done" /\ parse_mode[c] = "stream") =>
              outcome[c] = C6_Outcome(WithoutMalformed(aiter_lines(response[c].text)))
        /\ (pc[c] = "stream" /\ read[c] # <<>> /\ IsMalformed(Last(read[c]))) =>
              description_parts[c] = Fragments(WithoutMalformed(read[c]))

C6_Witness ==
    \E c \in Calls :
        /\ pc[c] = "done"
        /\ Len(read[c]) = 3
        /\ HasFragment(read[c][1]) /\ IsMalformed(read[c][2]) /\ HasFragment(read[c][3])
        /\ outcome[c] = Returned("parsed", <<"a", " ", "b">>)

\* C7: the client a call opens is closed in every terminal state; a call that
\* fails validation never opens one; a client is open only while its call is
\* between the POST and its return.
C7_ClientReleased ==
    \A c \in Calls :
        /\ pc[c] = "done" => client[c] # "open"
        /\ (pc[c] = "done" /\ posts[c] > 0) => client[c] = "closed"
        /\ (outcome[c].exit = "format_error" \/ outcome[c].kind = "raised") => client[c] = "none"
        /\ client[c] = "open" => pc[c] \in {"posting", "stream", "joining"}

C7_Witness ==
    \E c \in Calls :
        /\ pc[c] = "done"
        /\ outcome[c].exit = "unknown_error"
        /\ parse_mode[c] = "stream"
        /\ client[c] = "closed"

\* C8: within one call the streaming flag is one value: the mode the parser
\* is run in is the 'stream' value of the call's request body and the mode
\* its Accept header announces, whatever the host does to the shared
\* configuration while the call is in flight.
C8_StreamFlagConsistent ==
    \A c \in Calls :
        /\ request[c] # NoRequest =>
              (request[c].Accept = "text/event-stream") = request[c].stream
        /\ parse_mode[c] # "none" => (parse_mode[c] = "stream") = request[c].stream

\* C9 as stated: once the loop is over, the result is the placeholder exactly
\* when the accumulator is empty, and with a fragment accumulated it is the
\* concatenation of the fragments as they are.
C9_ExactConcatenation ==
    \A c \in Calls :
        (LoopCompleted(c) /\ AllStrings(description_parts[c])) =>
            /\ (outcome[c].text = NoStreamDescription) = (description_parts[c] = <<>>)
            /\ description_parts[c] # <<>> => outcome[c].text = concat(description_parts[c])

\* C9 amended: once the loop is over, if the concatenation of the fragments
\* in arrival order, with surrounding whitespace trimmed, is empty, the
\* result is the placeholder; otherwise the result is that trimmed
\* concatenation.
C9_TrimmedConcatenation ==
    \A c \in Calls :
        (LoopCompleted(c) /\ AllStrings(description_parts[c])) =>
            /\ outcome[c].kind = "returned"
            /\ outcome[c].exit = "parsed"
            /\ LET joined == concat(description_parts[c])
                   trimmed == rstrip(lstrip(joined))
               IN outcome[c].text = IF trimmed = <<>> THEN NoStreamDescription ELSE trimmed

C9_Witness ==
    \E c \in Calls :
        /\ LoopCompleted(c)
        /\ Len(description_parts[c]) = 3
        /\ AllStrings(description_parts[c])
        /\ concat(description_parts[c]) = <<" ", "b", " ", "a">>
        /\ outcome[c].text = <<"b", " ", "a">>

\* C10: reading a line that parses as JSON but holds no choices[0].delta.content
\* (not an object, choices absent or empty, choices[0] not an object, delta
\* absent or not an object, content absent or empty) leaves the accumulator
\* as it was and the loop running.
C10_NoContentLineNotFatal ==
    [][\A c \in Calls :
          (/\ pc[c] = "stream"
           /\ stream[c] # <<>>
           /\ ParsesAsJson(Head(stream[c]))
           /\ AbsentOrEmpty(DeltaContent(Head(stream[c])))
           /\ read'[c] # read[c]) =>
              (pc'[c] = "stream" /\ description_parts'[c] = description_parts[c])]_vars

====
